---- MODULE Spec2Model ----
(***************************************************************************)
(* Products API of sample-powertools-ev-ent-handler-validation: the routes *)
(* of lambda/handler.ts and the schemas of lambda/schemas.ts, dispatched   *)
(* by the validating router the routes are registered with.  The router,   *)
(* its middleware chain executor, its validation middleware and its error  *)
(* translator are not part of the sources; they are modelled from the      *)
(* specification (sections 4.3 to 4.6).                                    *)
(***************************************************************************)
EXTENDS Integers, Sequences, FiniteSets, TLC

(***************************************************************************)
(* Bounds of the model.                                                    *)
(***************************************************************************)
\* invocations that may be in flight at the same time
MaxConcurrent == 2
\* ids randomUUID may hand out, hence products ever created
MaxProducts == 2
\* middleware a route may be registered with
MaxChain == 3
\* routes a router may be registered with, where the table is not that of
\* lambda/handler.ts
MaxRoutes == 3

(***************************************************************************)
(* JavaScript values.  A value carries its typeof tag; objects are         *)
(* functions from keys to values, arrays are sequences of values.          *)
(***************************************************************************)
Str(s) == [t |-> "string", s |-> s]
Num(n) == [t |-> "number", n |-> n]
Bool(b) == [t |-> "boolean", b |-> b]
Obj(f) == [t |-> "object", o |-> f]
Arr(q) == [t |-> "array", a |-> q]
Undefined == [t |-> "undefined"]
JNull == [t |-> "null"]
EmptyObj == Obj([k \in {} |-> Undefined])

\* obj[key]: the property, or undefined when the object has no such key
Get(obj, key) == IF key \in DOMAIN obj.o THEN obj.o[key] ELSE Undefined

\* { ...a, ...b } for the functions under two objects: b's keys win
Spread(a, b) == b @@ a

\* const { pk, sk, ...rest } = item
Omit(f, keys) == [k \in (DOMAIN f) \ keys |-> f[k]]

\* if (v): a string is truthy when it is not empty; undefined is falsy
Truthy(v) == v.t = "string" /\ Len(v.s) > 0

(***************************************************************************)
(* Schemas (lambda/schemas.ts).  An object schema is the ordered list of   *)
(* its fields; min is the least string length (z.string().min), 0 when     *)
(* there is none.                                                          *)
(***************************************************************************)
Field(key, type, optional, positive, min) ==
    [key |-> key, type |-> type, optional |-> optional,
     positive |-> positive, min |-> min]

ObjectSchema(fields) == [kind |-> "object", fields |-> fields]
ArraySchema(element) == [kind |-> "array", element |-> element]
NoSchema == [kind |-> "none"]

ProductSchemaLoose ==
    ObjectSchema(<< Field("name", "string", FALSE, FALSE, 0),
                    Field("description", "string", TRUE, FALSE, 0),
                    Field("price", "number", FALSE, FALSE, 0),
                    Field("category", "string", FALSE, FALSE, 0) >>)

ProductSchema ==
    ObjectSchema(<< Field("name", "string", FALSE, FALSE, 0),
                    Field("description", "string", TRUE, FALSE, 0),
                    Field("price", "number", FALSE, TRUE, 0),
                    Field("category", "string", FALSE, FALSE, 0) >>)

ProductWithIdSchemaNoId == ProductSchema

\* ProductSchema.extend({ id: z.string() })
ProductWithIdSchema ==
    ObjectSchema(ProductSchema.fields \o << Field("id", "string", FALSE, FALSE, 0) >>)

ProductListSchema == ArraySchema(ProductWithIdSchema)

ProductPathSchema == ObjectSchema(<< Field("id", "string", FALSE, FALSE, 0) >>)

ApiKeyHeaderSchemaOptional ==
    ObjectSchema(<< Field("x-api-key", "string", TRUE, FALSE, 1) >>)

ApiKeyHeaderSchema ==
    ObjectSchema(<< Field("x-api-key", "string", FALSE, FALSE, 1) >>)

ProductQuerySchema ==
    ObjectSchema(<< Field("category", "string", TRUE, FALSE, 0),
                    Field("minPrice", "string", TRUE, FALSE, 0),
                    Field("maxPrice", "string", TRUE, FALSE, 0) >>)

\* z.object({ hasResBody: z.boolean() }), declared inline on GET /res-body
ResBodySchema == ObjectSchema(<< Field("hasResBody", "boolean", FALSE, FALSE, 0) >>)

(***************************************************************************)
(* Schema Validator (specification 4.1): parse(value) collects every       *)
(* violation in one pass, in field order, and on success yields the parsed *)
(* value: the declared keys only.                                          *)
(***************************************************************************)
Issue(path, message) == [path |-> path, message |-> message]

FieldIssues(f, v, prefix) ==
    LET path == prefix \o << f.key >> IN
    IF v = Undefined
    THEN IF f.optional THEN << >>
         ELSE << Issue(path, "Invalid input: expected " \o f.type \o ", received undefined") >>
    ELSE IF v.t # f.type
    THEN << Issue(path, "Invalid input: expected " \o f.type \o ", received " \o v.t) >>
    ELSE IF f.type = "number" /\ f.positive /\ v.n <= 0
    THEN << Issue(path, "Too small: expected number to be >0") >>
    ELSE IF f.type = "string" /\ Len(v.s) < f.min
    THEN << Issue(path, "Too small: expected string to have >=" \o ToString(f.min) \o " characters") >>
    ELSE << >>

RECURSIVE ObjectIssues(_, _, _, _)
ObjectIssues(fields, value, prefix, i) ==
    IF i > Len(fields) THEN << >>
    ELSE FieldIssues(fields[i], Get(value, fields[i].key), prefix)
            \o ObjectIssues(fields, value, prefix, i + 1)

SchemaKeys(schema) == { schema.fields[i].key : i \in 1..Len(schema.fields) }

ParseObject(schema, value, prefix) ==
    IF value.t # "object"
    THEN [issues |-> << Issue(prefix, "Invalid input: expected object, received " \o value.t) >>,
          value |-> Undefined]
    ELSE [issues |-> ObjectIssues(schema.fields, value, prefix, 1),
          value |-> Obj([k \in { k \in SchemaKeys(schema) : Get(value, k) # Undefined }
                           |-> value.o[k]])]

RECURSIVE ArrayIssues(_, _, _)
ArrayIssues(schema, items, i) ==
    IF i > Len(items) THEN << >>
    ELSE ParseObject(schema, items[i], << ToString(i - 1) >>).issues
            \o ArrayIssues(schema, items, i + 1)

Parse(schema, value) ==
    IF schema.kind = "object" THEN ParseObject(schema, value, << >>)
    ELSE IF value.t # "array"
    THEN [issues |-> << Issue(<< >>, "Invalid input: expected array, received " \o value.t) >>,
          value |-> Undefined]
    ELSE [issues |-> ArrayIssues(schema.element, value.a, 1),
          value |-> Arr([i \in 1..Len(value.a) |->
                            ParseObject(schema.element, value.a[i], << >>).value])]

(***************************************************************************)
(* Strings.  A string is a TLA+ string: Len, SubSeq and \o act on its      *)
(* characters.                                                             *)
(***************************************************************************)
CharAt(s, i) == SubSeq(s, i, i)

\* s.indexOf(pat) from position i, 1-based; 0 when pat does not occur
RECURSIVE IndexOf(_, _, _)
IndexOf(s, pat, i) ==
    IF i + Len(pat) - 1 > Len(s) THEN 0
    ELSE IF SubSeq(s, i, i + Len(pat) - 1) = pat THEN i
    ELSE IndexOf(s, pat, i + 1)

\* s.replace(pat, rep) with a string pattern: the first occurrence only
Replace(s, pat, rep) ==
    LET i == IndexOf(s, pat, 1) IN
    IF i = 0 THEN s
    ELSE SubSeq(s, 1, i - 1) \o rep \o SubSeq(s, i + Len(pat), Len(s))

\* path.split('/') without the empty segments
RECURSIVE Split(_, _, _)
Split(s, i, cur) ==
    IF i > Len(s) THEN (IF cur = "" THEN << >> ELSE << cur >>)
    ELSE IF CharAt(s, i) = "/"
    THEN (IF cur = "" THEN << >> ELSE << cur >>) \o Split(s, i + 1, "")
    ELSE Split(s, i + 1, cur \o CharAt(s, i))

Segments(path) == Split(path, 1, "")

Digits == << "0", "1", "2", "3", "4", "5", "6", "7", "8", "9" >>
IsDigit(c) == \E d \in 1..10 : Digits[d] = c
DigitValue(c) == (CHOOSE d \in 1..10 : Digits[d] = c) - 1

\* the number of consecutive digits of s from position i
RECURSIVE DigitRun(_, _)
DigitRun(s, i) ==
    IF i <= Len(s) /\ IsDigit(CharAt(s, i)) THEN 1 + DigitRun(s, i + 1) ELSE 0

\* the value of the n digits of s from position i
RECURSIVE DigitsValue(_, _, _)
DigitsValue(s, i, n) ==
    IF n = 0 THEN 0
    ELSE DigitsValue(s, i, n - 1) * 10 + DigitValue(CharAt(s, i + n - 1))

RECURSIVE Pow10(_)
Pow10(n) == IF n = 0 THEN 1 ELSE 10 * Pow10(n - 1)

RECURSIVE SkipSpaces(_, _)
SkipSpaces(s, i) ==
    IF i <= Len(s) /\ CharAt(s, i) = " " THEN SkipSpaces(s, i + 1) ELSE i

NaN == [nan |-> TRUE, num |-> 0, den |-> 1]

(***************************************************************************)
(* Number.parseFloat(s): leading blanks, an optional sign, the longest     *)
(* prefix of digits with an optional fraction; NaN when that prefix holds  *)
(* no digit.  The result is the fraction num/den.  Exponents and           *)
(* "Infinity" are not parsed: the query strings of the model hold neither. *)
(***************************************************************************)
ParseFloat(s) ==
    LET start == SkipSpaces(s, 1)
        signed == start <= Len(s) /\ CharAt(s, start) \in {"+", "-"}
        negative == signed /\ CharAt(s, start) = "-"
        i0 == IF signed THEN start + 1 ELSE start
        nInt == DigitRun(s, i0)
        hasDot == i0 + nInt <= Len(s) /\ CharAt(s, i0 + nInt) = "."
        nFrac == IF hasDot THEN DigitRun(s, i0 + nInt + 1) ELSE 0
        magnitude == DigitsValue(s, i0, nInt) * Pow10(nFrac)
                        + DigitsValue(s, i0 + nInt + 1, nFrac)
    IN  IF nInt + nFrac = 0 THEN NaN
        ELSE [nan |-> FALSE,
              num |-> IF negative THEN 0 - magnitude ELSE magnitude,
              den |-> Pow10(nFrac)]

\* n >= x and n <= x for a number n and a parseFloat result x: false on NaN
NumGe(n, x) == ~x.nan /\ n * x.den >= x.num
NumLe(n, x) == ~x.nan /\ n * x.den <= x.num

\* JSON.stringify of a boolean, a string, a number or an object of them;
\* the keys of an object with several are written in no particular order
RECURSIVE Stringify(_)
RECURSIVE StringifyKeys(_, _)
StringifyKeys(f, keys) ==
    IF keys = {} THEN ""
    ELSE LET k == CHOOSE k \in keys : TRUE
             rest == StringifyKeys(f, keys \ {k})
         IN  "\"" \o k \o "\":" \o Stringify(f[k])
                \o (IF rest = "" THEN "" ELSE "," \o rest)
Stringify(v) ==
    IF v.t = "boolean" THEN (IF v.b THEN "true" ELSE "false")
    ELSE IF v.t = "string" THEN "\"" \o v.s \o "\""
    ELSE IF v.t = "number" THEN ToString(v.n)
    ELSE IF v.t = "object" THEN "{" \o StringifyKeys(v.o, DOMAIN v.o) \o "}"
    ELSE "null"

(***************************************************************************)
(* Storage: the DynamoDB table of lib (pk, sk) with its inverted index     *)
(* (sk, pk), as the key-value collaborator of specification section 6.     *)
(* A command acts on the table in one step.                                *)
(***************************************************************************)
TABLE_SK == "PRODUCTS"
PK_PREFIX == "PRODUCTS#"

Alphabet == "#-.0123456789ABCDEFGHIJKLMNOPQRSTUVWXYZ_abcdefghijklmnopqrstuvwxyz"
CharRank(c) == IndexOf(Alphabet, c, 1)

\* a < b in the order of the index's sort key
RECURSIVE StrLess(_, _, _)
StrLess(a, b, i) ==
    IF i > Len(b) THEN FALSE
    ELSE IF i > Len(a) THEN TRUE
    ELSE IF CharAt(a, i) = CharAt(b, i) THEN StrLess(a, b, i + 1)
    ELSE CharRank(CharAt(a, i)) < CharRank(CharAt(b, i))

RECURSIVE SortByPk(_)
SortByPk(items) ==
    IF items = {} THEN << >>
    ELSE LET first == CHOOSE x \in items :
                        \A y \in items \ {x} : StrLess(x.pk.s, y.pk.s, 1)
         IN  << first >> \o SortByPk(items \ {first})

PutCommand(item) == [op |-> "put", item |-> item]
GetCommand(key) == [op |-> "get", key |-> key]
QueryCommand(sk) == [op |-> "query", sk |-> sk]
DeleteCommand(key) == [op |-> "delete", key |-> key]
NoCommand == [op |-> "none"]

HasKey(item, key) == item.pk = key.pk /\ item.sk = key.sk

\* the table after the command
StoreAfter(table, cmd) ==
    IF cmd.op = "put"
    THEN { x \in table : ~HasKey(x, cmd.item) } \cup { cmd.item }
    ELSE IF cmd.op = "delete"
    THEN { x \in table : ~HasKey(x, cmd.key) }
    ELSE table

\* what client.send resolves to: Item for a get, Items for a query
StoreReply(table, cmd) ==
    IF cmd.op = "get"
    THEN IF \E x \in table : HasKey(x, cmd.key)
         THEN Obj(CHOOSE x \in table : HasKey(x, cmd.key))
         ELSE Undefined
    ELSE IF cmd.op = "query"
    THEN Arr(SortByPk({ x \in table : x.sk = Str(cmd.sk) }))
    ELSE Undefined

(***************************************************************************)
(* Outcomes of a unit of the chain: it returns a value or a Response, it   *)
(* throws, or it awaits a storage command and is resumed with the reply.   *)
(***************************************************************************)
Error(name, message, issues) == [name |-> name, message |-> message, issues |-> issues]
TypeError == Error("TypeError", "Cannot read properties of undefined", << >>)

Return(value) == [kind |-> "return", value |-> value]
RespondWith(status, body) == [kind |-> "response", status |-> status, body |-> body]
Throw(error) == [kind |-> "throw", error |-> error]
Await(cmd, local) == [kind |-> "await", cmd |-> cmd, local |-> local]

NoLocal == [id |-> ""]

RandomUUIDConstant(n) == "u1"

\* crypto.randomUUID(): an id no earlier call returned; n counts the calls made
RandomUUID(n) == "u" \o ToString(n + 1)

\* reqCtx.valid.req[part]; the access throws when valid.req is not there
HasValidReq(I) == I.validReq # Undefined
ValidReq(I, part) == Get(I.validReq, part)

(***************************************************************************)
(* Handlers of lambda/handler.ts.  XCall is the handler up to its await    *)
(* (or to its end when it awaits nothing), XResume is the rest, given the  *)
(* reply.  uuids is the number of randomUUID calls made so far.            *)
(***************************************************************************)

\* GET /products
ListProductsCall(I, uuids) ==
    IF ~HasValidReq(I) \/ ValidReq(I, "query").t # "object" THEN Throw(TypeError)
    ELSE Await(QueryCommand(TABLE_SK), NoLocal)

ToProduct(item) ==
    LET id == Replace(item.pk.s, PK_PREFIX, "")
    IN  Obj(Spread([id |-> Str(id)], Omit(item, {"pk", "sk"})))

ListProductsResumeNoMax(I, reply) ==
    LET query == ValidReq(I, "query")
        category == Get(query, "category")
        minPrice == Get(query, "minPrice")
        ByCategory(p) == Get(p, "category") = category
        ByMin(p) == NumGe(p.o.price.n, ParseFloat(minPrice.s))
        products == [i \in 1..Len(reply.a) |-> ToProduct(reply.a[i])]
        filtered1 == IF Truthy(category) THEN SelectSeq(products, ByCategory) ELSE products
        filtered2 == IF Truthy(minPrice) THEN SelectSeq(filtered1, ByMin) ELSE filtered1
    IN  Return(Arr(filtered2))

ListProductsResume(I, reply) ==
    LET query == ValidReq(I, "query")
        category == Get(query, "category")
        minPrice == Get(query, "minPrice")
        maxPrice == Get(query, "maxPrice")
        ByCategory(p) == Get(p, "category") = category
        ByMin(p) == NumGe(p.o.price.n, ParseFloat(minPrice.s))
        ByMax(p) == NumLe(p.o.price.n, ParseFloat(maxPrice.s))
        products == [i \in 1..Len(reply.a) |-> ToProduct(reply.a[i])]
        filtered1 == IF Truthy(category) THEN SelectSeq(products, ByCategory) ELSE products
        filtered2 == IF Truthy(minPrice) THEN SelectSeq(filtered1, ByMin) ELSE filtered1
        filtered3 == IF Truthy(maxPrice) THEN SelectSeq(filtered2, ByMax) ELSE filtered2
    IN  Return(Arr(filtered3))

\* GET /products/:id
ProductKey(id) == [pk |-> Str(PK_PREFIX \o id), sk |-> Str(TABLE_SK)]

GetProductCall(I, uuids) ==
    IF ~HasValidReq(I) \/ ValidReq(I, "path").t # "object" THEN Throw(TypeError)
    ELSE LET id == Get(ValidReq(I, "path"), "id")
         IN  Await(GetCommand(ProductKey(id.s)), [id |-> id.s])

GetProductResumeNoThrow(I, reply) ==
    Return(Obj([id |-> Str(I.local.id)]))

GetProductResume(I, reply) ==
    IF reply = Undefined
    THEN Throw(Error("NotFoundError", "Product not found", << >>))
    ELSE Return(Obj(Spread([id |-> Str(I.local.id)], Omit(reply.o, {"pk", "sk"}))))

\* GET /product-invalid
ProductInvalidCall(I, uuids) ==
    Return(Obj([name |-> Str("Test"), price |-> Num(10), category |-> Str("Test")]))

\* GET /res-body
ResBodyCall(I, uuids) == Return(Obj([hasResBody |-> Bool(TRUE)]))

\* GET /product-valid
ProductValidCall(I, uuids) ==
    Return(Obj([id |-> Str("1234"), name |-> Str("Test"), price |-> Num(10),
                category |-> Str("Test")]))

\* GET /protected
ProtectedCall(I, uuids) ==
    IF ~HasValidReq(I) \/ ValidReq(I, "headers").t # "object" THEN Throw(TypeError)
    ELSE LET apiKey == Get(ValidReq(I, "headers"), "x-api-key")
         IN  Return(Obj([message |-> Str("Authenticated with "
                            \o (IF apiKey.t = "string" THEN apiKey.s ELSE apiKey.t))]))

\* POST /products
ProductFields(product) ==
    IF product.t = "object" THEN product.o ELSE [k \in {} |-> Undefined]

CreateProductCallRawBody(I, uuids) ==
    LET product == I.event.body
        id == RandomUUID(uuids)
        item == Spread([pk |-> Str(PK_PREFIX \o id), sk |-> Str(TABLE_SK)],
                       ProductFields(product))
    IN  Await(PutCommand(item), [id |-> id])

CreateProductCall(I, uuids) ==
    IF ~HasValidReq(I) THEN Throw(TypeError)
    ELSE LET product == ValidReq(I, "body")
             id == RandomUUID(uuids)
             item == Spread([pk |-> Str(PK_PREFIX \o id), sk |-> Str(TABLE_SK)],
                            ProductFields(product))
         IN  Await(PutCommand(item), [id |-> id])

CreateProductResume(I, reply) ==
    Return(Obj(Spread([id |-> Str(I.local.id)], ProductFields(ValidReq(I, "body")))))

\* DELETE /products/:id
DeleteProductCall(I, uuids) ==
    IF ~HasValidReq(I) \/ ValidReq(I, "path").t # "object" THEN Throw(TypeError)
    ELSE LET id == Get(ValidReq(I, "path"), "id")
         IN  Await(DeleteCommand(ProductKey(id.s)), [id |-> id.s])

DeleteProductResumePlain(I, reply) == Return(JNull)

DeleteProductResume(I, reply) == RespondWith(204, JNull)

HandlerCall(name, I, uuids) ==
    CASE name = "listProducts" -> ListProductsCall(I, uuids)
      [] name = "getProduct" -> GetProductCall(I, uuids)
      [] name = "productInvalid" -> ProductInvalidCall(I, uuids)
      [] name = "resBody" -> ResBodyCall(I, uuids)
      [] name = "productValid" -> ProductValidCall(I, uuids)
      [] name = "protected" -> ProtectedCall(I, uuids)
      [] name = "createProduct" -> CreateProductCall(I, uuids)
      [] name = "deleteProduct" -> DeleteProductCall(I, uuids)

HandlerResume(name, I, reply) ==
    CASE name = "listProducts" -> ListProductsResume(I, reply)
      [] name = "getProduct" -> GetProductResume(I, reply)
      [] name = "createProduct" -> CreateProductResume(I, reply)
      [] name = "deleteProduct" -> DeleteProductResume(I, reply)

\* await client.send(...) rejects: no handler has a try/catch around it, so
\* the handler throws what the client rejected with
HandlerRejectCaught(name, I, error) == Return(Undefined)

HandlerReject(name, I, error) == Throw(error)

\* a rejection of the storage client, of a kind the router does not know
StorageError == Error("ProvisionedThroughputExceededException", "Rate exceeded", << >>)

(***************************************************************************)
(* Route registration (lambda/handler.ts): app.get, app.post, app.delete   *)
(* in the order of the file.                                               *)
(***************************************************************************)
Validation(path, query, headers, body, resBody) ==
    [declared |-> TRUE,
     req |-> [path |-> path, query |-> query, headers |-> headers, body |-> body],
     res |-> [body |-> resBody]]

Route(method, path, middleware, handler, validation) ==
    [method |-> method, path |-> path, middleware |-> middleware,
     handler |-> handler, validation |-> validation]

Routes ==
    << Route("GET", "/products", << >>, "listProducts",
             Validation(NoSchema, ProductQuerySchema, NoSchema, NoSchema, ProductListSchema)),
       Route("GET", "/products/:id", << >>, "getProduct",
             Validation(ProductPathSchema, NoSchema, NoSchema, NoSchema, ProductWithIdSchema)),
       Route("GET", "/product-invalid", << >>, "productInvalid",
             Validation(NoSchema, NoSchema, NoSchema, NoSchema, ProductWithIdSchema)),
       Route("GET", "/res-body", << "validResMiddleware" >>, "resBody",
             Validation(NoSchema, NoSchema, NoSchema, NoSchema, ResBodySchema)),
       Route("GET", "/product-valid", << >>, "productValid",
             Validation(NoSchema, NoSchema, NoSchema, NoSchema, ProductWithIdSchema)),
       Route("GET", "/protected", << >>, "protected",
             Validation(NoSchema, NoSchema, ApiKeyHeaderSchema, NoSchema, NoSchema)),
       Route("POST", "/products", << >>, "createProduct",
             Validation(NoSchema, NoSchema, NoSchema, ProductSchema, ProductWithIdSchema)),
       Route("DELETE", "/products/:id", << >>, "deleteProduct",
             Validation(ProductPathSchema, NoSchema, NoSchema, NoSchema, NoSchema)) >>

(***************************************************************************)
(* Request Context (specification 3 and 4.2): the event, the captured path *)
(* parameters, the response being built and the valid container, with the  *)
(* position of the invocation in its chain.  table is history: the table   *)
(* as it was when the handler's query or get took effect.                  *)
(***************************************************************************)
NoHeaders == [k \in {} |-> ""]
Response(status, headers, body) == [status |-> status, headers |-> headers, body |-> body]
DefaultResponse == Response(200, NoHeaders, Undefined)

Event(method, path, query, headers, body) ==
    [method |-> method, path |-> path, query |-> query, headers |-> headers, body |-> body]
NoEvent == Event("", "", EmptyObj, EmptyObj, Undefined)

Idle ==
    [pc |-> "idle", event |-> NoEvent, route |-> 0, chain |-> << >>, pos |-> 0,
     dir |-> "down", params |-> EmptyObj, validReq |-> Undefined, validRes |-> Undefined,
     res |-> DefaultResponse, thrown |-> Undefined, log |-> << >>, local |-> NoLocal,
     cmd |-> NoCommand, table |-> {}, result |-> Undefined]

(***************************************************************************)
(* Route matching (specification 4.5, step 2).                             *)
(***************************************************************************)
IsParam(seg) == Len(seg) > 0 /\ CharAt(seg, 1) = ":"
ParamName(seg) == SubSeq(seg, 2, Len(seg))

PathMatches(pattern, path) ==
    LET ps == Segments(pattern)
        xs == Segments(path)
    IN  /\ Len(ps) = Len(xs)
        /\ \A i \in 1..Len(ps) : IsParam(ps[i]) \/ ps[i] = xs[i]

PathParams(pattern, path) ==
    LET ps == Segments(pattern)
        xs == Segments(path)
        names == { ParamName(ps[i]) : i \in { j \in 1..Len(ps) : IsParam(ps[j]) } }
    IN  Obj([n \in names |->
                Str(xs[CHOOSE i \in 1..Len(ps) : IsParam(ps[i]) /\ ParamName(ps[i]) = n])])

RouteMatches(route, event) ==
    route.method = event.method /\ PathMatches(route.path, event.path)

LastMatch(table, event) ==
    IF \E i \in 1..Len(table) : RouteMatches(table[i], event)
    THEN CHOOSE i \in 1..Len(table) :
            /\ RouteMatches(table[i], event)
            /\ \A j \in (i + 1)..Len(table) : ~RouteMatches(table[j], event)
    ELSE 0

\* the earliest registered route that matches, 0 when none does
FirstMatch(table, event) ==
    IF \E i \in 1..Len(table) : RouteMatches(table[i], event)
    THEN CHOOSE i \in 1..Len(table) :
            /\ RouteMatches(table[i], event)
            /\ \A j \in 1..(i - 1) : ~RouteMatches(table[j], event)
    ELSE 0

(***************************************************************************)
(* The route table of the Router (const app = new Router()): what the      *)
(* registrations have put there at startup, read by every dispatch.        *)
(***************************************************************************)
VARIABLE routes

(***************************************************************************)
(* Chain building (specification 4.5, step 4).  Validation is implemented  *)
(* as middleware and executes first; the validated response is there for   *)
(* the route's middleware once next() has returned to it (README, Notes;   *)
(* test 'should have validated response body available in middleware').    *)
(* So request validation is the outermost unit and response validation the *)
(* innermost one, next to the handler.                                     *)
(***************************************************************************)
RequestValidationUnit == [kind |-> "requestValidation", name |-> "requestValidation"]
ResponseValidationUnit == [kind |-> "responseValidation", name |-> "responseValidation"]
MiddlewareUnit(name) == [kind |-> "middleware", name |-> name]
HandlerUnit(name) == [kind |-> "handler", name |-> name]

UserMiddleware(route) ==
    [i \in 1..Len(route.middleware) |-> MiddlewareUnit(route.middleware[i])]

ValidatesResponse(route) ==
    route.validation.declared /\ route.validation.res.body.kind # "none"

BuildChainUserFirst(route) ==
    UserMiddleware(route)
        \o (IF route.validation.declared THEN << RequestValidationUnit >> ELSE << >>)
        \o (IF ValidatesResponse(route) THEN << ResponseValidationUnit >> ELSE << >>)
        \o << HandlerUnit(route.handler) >>

BuildChain(route) ==
    (IF route.validation.declared THEN << RequestValidationUnit >> ELSE << >>)
        \o UserMiddleware(route)
        \o (IF ValidatesResponse(route) THEN << ResponseValidationUnit >> ELSE << >>)
        \o << HandlerUnit(route.handler) >>

(***************************************************************************)
(* Validation middleware (specification 4.4).                              *)
(***************************************************************************)
Parts == << "path", "query", "headers", "body" >>

RawPart(I, part) ==
    CASE part = "path" -> I.params
      [] part = "query" -> I.event.query
      [] part = "headers" -> I.event.headers
      [] part = "body" -> I.event.body

Declared(I, part) == routes[I.route].validation.req[part].kind # "none"

RECURSIVE RequestIssuesFirstFailure(_, _)
RequestIssuesFirstFailure(I, i) ==
    IF i > Len(Parts) THEN << >>
    ELSE LET issues == IF Declared(I, Parts[i])
                       THEN Parse(routes[I.route].validation.req[Parts[i]],
                                  RawPart(I, Parts[i])).issues
                       ELSE << >>
         IN  IF issues # << >> THEN issues ELSE RequestIssuesFirstFailure(I, i + 1)

RECURSIVE RequestIssues(_, _)
RequestIssues(I, i) ==
    IF i > Len(Parts) THEN << >>
    ELSE (IF Declared(I, Parts[i])
          THEN Parse(routes[I.route].validation.req[Parts[i]], RawPart(I, Parts[i])).issues
          ELSE << >>) \o RequestIssues(I, i + 1)

\* steps 1 to 3: what the middleware does before next()
ValidateRequest(I) ==
    LET issues == RequestIssues(I, 1)
        declared == { Parts[i] : i \in { j \in 1..Len(Parts) : Declared(I, Parts[j]) } }
    IN  IF issues # << >>
        THEN [act |-> "throw",
              I |-> [I EXCEPT !.thrown = Error("RequestValidationError", "Validation failed", issues)]]
        ELSE [act |-> "next",
              I |-> [I EXCEPT !.validReq =
                        Obj([p \in declared |->
                                Parse(routes[I.route].validation.req[p], RawPart(I, p)).value])]]

\* steps 4 and 5: what it does once next() has returned
ValidateResponse(I) ==
    LET schema == routes[I.route].validation.res.body
        parsed == Parse(schema, I.res.body)
    IN  IF schema.kind = "none" THEN [act |-> "return", I |-> I]
        ELSE IF parsed.issues # << >>
        THEN [act |-> "throw",
              I |-> [I EXCEPT !.thrown =
                        Error("ResponseValidationError", "Validation failed", parsed.issues)]]
        ELSE [act |-> "return",
              I |-> [I EXCEPT !.validRes = Obj([body |-> parsed.value])]]

(***************************************************************************)
(* validResMiddleware (lambda/handler.ts): await next(), then read         *)
(* reqCtx.valid.res.body and set the x-exists header from it.              *)
(***************************************************************************)
ReadValidResBodyLenient(I) ==
    IF I.validRes = Undefined THEN Return(Undefined)
    ELSE Return(Get(I.validRes, "body"))

\* reqCtx.valid.res.body: a TypeError while valid.res is not there
ReadValidResBody(I) ==
    IF I.validRes = Undefined THEN Throw(TypeError)
    ELSE Return(Get(I.validRes, "body"))

SetHeader(res, name, value) ==
    [res EXCEPT !.headers = [k \in {name} |-> value] @@ res.headers]

ValidResMiddlewarePreReadsFirst(I) ==
    IF ReadValidResBody(I).kind = "throw"
    THEN [act |-> "throw", I |-> [I EXCEPT !.thrown = ReadValidResBody(I).error]]
    ELSE [act |-> "next", I |-> I]

ValidResMiddlewarePre(I) == [act |-> "next", I |-> I]

ValidResMiddlewarePost(I) ==
    LET body == ReadValidResBody(I)
    IN  IF body.kind = "throw"
        THEN [act |-> "throw", I |-> [I EXCEPT !.thrown = body.error]]
        ELSE [act |-> "return",
              I |-> [I EXCEPT !.res = SetHeader(I.res, "x-exists", Stringify(body.value))]]

(***************************************************************************)
(* Middleware of the kinds specification 4.3 allows and lambda/handler.ts  *)
(* does not register: one that calls next() and does nothing else, one     *)
(* that changes the response once next() has returned, and one that sets   *)
(* a response and returns without calling next().                          *)
(***************************************************************************)
PassThroughPre(I) == [act |-> "next", I |-> I]
PassThroughPost(I) == [act |-> "return", I |-> I]

StampPre(I) == [act |-> "next", I |-> I]
StampPost(I) == [act |-> "return", I |-> [I EXCEPT !.res = SetHeader(I.res, "x-stamp", "1")]]

ShortCircuitBody == Obj([error |-> Str("Unauthorized")])
ShortCircuitPre(I) ==
    [act |-> "return",
     I |-> [I EXCEPT !.res = [status |-> 401, headers |-> I.res.headers,
                              body |-> ShortCircuitBody]]]
ShortCircuitPost(I) == [act |-> "return", I |-> I]

(***************************************************************************)
(* Middleware Chain Executor (specification 4.3).                          *)
(***************************************************************************)
UnitPre(unit, I) ==
    CASE unit.kind = "requestValidation" -> ValidateRequest(I)
      [] unit.kind = "responseValidation" -> [act |-> "next", I |-> I]
      [] unit.name = "passThrough" -> PassThroughPre(I)
      [] unit.name = "stamp" -> StampPre(I)
      [] unit.name = "shortCircuit" -> ShortCircuitPre(I)
      [] OTHER -> ValidResMiddlewarePre(I)

UnitPost(unit, I) ==
    CASE unit.kind = "requestValidation" -> [act |-> "return", I |-> I]
      [] unit.kind = "responseValidation" -> ValidateResponse(I)
      [] unit.name = "passThrough" -> PassThroughPost(I)
      [] unit.name = "stamp" -> StampPost(I)
      [] unit.name = "shortCircuit" -> ShortCircuitPost(I)
      [] OTHER -> ValidResMiddlewarePost(I)

Logged(I, unit, phase) == [I EXCEPT !.log = Append(I.log, << unit.name, phase >>)]

\* control leaves the unit at I.pos towards the unit that called it
Unwind(I) == [I EXCEPT !.dir = "up", !.pos = I.pos - 1]

AfterPreAlwaysNext(I, out) ==
    IF out.act \in {"next", "return"} THEN [out.I EXCEPT !.pos = I.pos + 1]
    ELSE Unwind(out.I)

\* the unit at I.pos has run up to its next() call, its return or its throw
AfterPre(I, out) ==
    IF out.act = "next" THEN [out.I EXCEPT !.pos = I.pos + 1]
    ELSE Unwind(out.I)

\* the handler at I.pos has ended with this outcome
AfterHandler(I, out) ==
    IF out.kind = "return"
    THEN Unwind([I EXCEPT !.res = Response(200, I.res.headers, out.value)])
    ELSE IF out.kind = "response"
    THEN Unwind([I EXCEPT !.res = Response(out.status, I.res.headers, out.body)])
    ELSE Unwind([I EXCEPT !.thrown = out.error])

(***************************************************************************)
(* Error Translator (specification 4.6).                                   *)
(***************************************************************************)
ErrorBody(name, details) == [error |-> name, details |-> details]

Translate(error) ==
    IF error.name = "RequestValidationError"
    THEN Response(422, NoHeaders, ErrorBody(error.name, [issues |-> error.issues]))
    ELSE IF error.name = "ResponseValidationError"
    THEN Response(500, NoHeaders, ErrorBody(error.name, [issues |-> error.issues]))
    ELSE IF error.name = "NotFoundError"
    THEN Response(404, NoHeaders, ErrorBody(error.name, [message |-> error.message]))
    ELSE Response(500, NoHeaders, ErrorBody("InternalError", [message |-> ""]))

RouteNotMatched == Error("NotFoundError", "Not found", << >>)

(***************************************************************************)
(* Events the model dispatches.                                            *)
(***************************************************************************)
Product(name, price, category) ==
    Obj([name |-> Str(name), price |-> Num(price), category |-> Str(category)])

ValidBodies ==
    { \* with a key the schema does not declare
      Obj([name |-> Str("Cheap Electronics"), price |-> Num(15),
           category |-> Str("Electronics"), pk |-> Str("PRODUCTS#x")]),
      Product("Cheap Furniture", 25, "Furniture") }

InvalidBodies ==
    { Product("Test Product", -10, "Test"),
      Obj([name |-> Str("Test Product"), price |-> Str("10")]),
      JNull }

Query(f) == Obj(f)

Queries ==
    { EmptyObj,
      Query([category |-> Str("Electronics")]),
      Query([minPrice |-> Str("20"), maxPrice |-> Str("100")]),
      Query([minPrice |-> Str("abc")]),
      Query([category |-> Str("Electronics"), maxPrice |-> Str("15.5x")]),
      Query([category |-> Str(""), minPrice |-> Str(""), maxPrice |-> Str("20")]) }

HeaderSets ==
    { EmptyObj,
      Obj([k \in {"x-api-key"} |-> Str("")]),
      Obj([k \in {"x-api-key"} |-> Str("test-key-123")]) }

\* the first id randomUUID hands out, and an id it never does
PathIds == { RandomUUID(0), "zz" }

Events ==
    { Event("POST", "/products", EmptyObj, EmptyObj, b) : b \in ValidBodies \cup InvalidBodies }
    \cup { Event("GET", "/products", q, EmptyObj, Undefined) : q \in Queries }
    \cup { Event(m, "/products/" \o id, EmptyObj, EmptyObj, Undefined) :
              m \in {"GET", "DELETE"}, id \in PathIds }
    \cup { Event("GET", p, EmptyObj, EmptyObj, Undefined) :
              p \in {"/product-invalid", "/res-body", "/product-valid", "/nope"} }
    \cup { Event("GET", "/protected", EmptyObj, h, Undefined) : h \in HeaderSets }
    \cup { Event("PUT", "/products", EmptyObj, EmptyObj, Undefined) }

(***************************************************************************)
(* State.                                                                  *)
(***************************************************************************)
VARIABLES
    inv,        \* the invocation of each slot, Idle when the slot is free
    store,      \* the items of the table
    uuids,      \* the number of randomUUID calls made
    created,    \* history: the bodies of the 200 responses of POST /products
                \* whose product no DeleteCommand has removed
    deleted     \* history: the ids whose item a DeleteCommand removed

vars == << inv, store, uuids, created, deleted, routes >>

Slots == 1..MaxConcurrent

Init ==
    /\ inv = [s \in Slots |-> Idle]
    /\ store = {}
    /\ uuids = 0
    /\ created = {}
    /\ deleted = {}
    /\ routes = Routes

HandlerOf(I) == IF I.route = 0 THEN "" ELSE routes[I.route].handler

\* invocations that will call randomUUID and have not yet
PendingCreates ==
    { s \in Slots : inv[s].pc = "running" /\ inv[s].dir = "down"
                      /\ HandlerOf(inv[s]) = "createProduct" }

UuidsAfter(name, out, n) ==
    IF name = "createProduct" /\ out.kind = "await" THEN n + 1 ELSE n

(***************************************************************************)
(* Router.dispatch (specification 4.5), one action per step of the chain.  *)
(***************************************************************************)
\* steps 1 to 4: match the route, build the context and the chain
Dispatch(s, e) ==
    LET r == FirstMatch(routes, e) IN
    /\ inv[s].pc = "idle"
    /\ \A t \in Slots : t < s => inv[t].pc # "idle"
    /\ (r # 0 /\ routes[r].handler = "createProduct")
          => uuids + Cardinality(PendingCreates) < MaxProducts
    /\ inv' = [inv EXCEPT ![s] =
          IF r = 0
          THEN [Idle EXCEPT !.pc = "done", !.event = e, !.result = Translate(RouteNotMatched)]
          ELSE [Idle EXCEPT !.pc = "running", !.event = e, !.route = r,
                            !.chain = BuildChain(routes[r]), !.pos = 1,
                            !.params = PathParams(routes[r].path, e.path)]]
    /\ UNCHANGED << store, uuids, created, deleted, routes >>

\* the executor enters a middleware, which runs up to its next() call
MiddlewareEnter(s) ==
    LET I == inv[s]
        unit == I.chain[I.pos]
    IN  /\ I.pc = "running" /\ I.dir = "down"
        /\ unit.kind # "handler"
        /\ inv' = [inv EXCEPT ![s] = AfterPre(I, UnitPre(unit, Logged(I, unit, "pre")))]
        /\ UNCHANGED << store, uuids, created, deleted, routes >>

\* the executor calls the handler, which runs up to its await or to its end
HandlerEnter(s) ==
    LET I == inv[s]
        unit == I.chain[I.pos]
        out == HandlerCall(unit.name, I, uuids)
        J == Logged(I, unit, "call")
    IN  /\ I.pc = "running" /\ I.dir = "down"
        /\ unit.kind = "handler"
        /\ inv' = [inv EXCEPT ![s] =
              IF out.kind = "await"
              THEN [J EXCEPT !.pc = "awaiting", !.cmd = out.cmd, !.local = out.local]
              ELSE AfterHandler(J, out)]
        /\ uuids' = UuidsAfter(unit.name, out, uuids)
        /\ UNCHANGED << store, created, deleted, routes >>

\* the storage command takes effect and the handler runs to its end
StorageReply(s) ==
    LET I == inv[s]
        unit == I.chain[I.pos]
        out == HandlerResume(unit.name, I, StoreReply(store, I.cmd))
    IN  /\ I.pc = "awaiting"
        /\ store' = StoreAfter(store, I.cmd)
        /\ deleted' = IF I.cmd.op = "delete" /\ store' # store
                      THEN deleted \cup { I.local.id } ELSE deleted
        /\ created' = IF I.cmd.op = "delete"
                      THEN { c \in created : c.o.id # Str(I.local.id) } ELSE created
        /\ inv' = [inv EXCEPT ![s] =
              AfterHandler([Logged(I, unit, "resume") EXCEPT
                                !.pc = "running", !.cmd = NoCommand,
                                !.table = IF I.cmd.op \in {"query", "get"} THEN store ELSE {}],
                           out)]
        /\ UNCHANGED << uuids, routes >>

\* control comes back to a middleware at its next() call: a throw passes
\* through it, a return lets it run the rest of its code
MiddlewareResume(s) ==
    LET I == inv[s]
        unit == I.chain[I.pos]
    IN  /\ I.pc = "running" /\ I.dir = "up" /\ I.pos >= 1
        /\ inv' = [inv EXCEPT ![s] =
              IF I.thrown # Undefined
              THEN Unwind(Logged(I, unit, "rethrow"))
              ELSE Unwind(UnitPost(unit, Logged(I, unit, "post")).I)]
        /\ UNCHANGED << store, uuids, created, deleted, routes >>

\* steps 6 and 7: the final response, or the translated error
Finish(s) ==
    LET I == inv[s]
        result == IF I.thrown = Undefined THEN I.res ELSE Translate(I.thrown)
    IN  /\ I.pc = "running" /\ I.dir = "up" /\ I.pos = 0
        /\ inv' = [inv EXCEPT ![s] = [I EXCEPT !.pc = "done", !.result = result]]
        /\ created' = IF HandlerOf(I) = "createProduct" /\ result.status = 200
                            /\ I.local.id \notin deleted
                      THEN created \cup { result.body } ELSE created
        /\ UNCHANGED << store, uuids, deleted, routes >>

\* the response has been sent: the context is discarded
Release(s) ==
    /\ inv[s].pc = "done"
    /\ inv' = [inv EXCEPT ![s] = Idle]
    /\ UNCHANGED << store, uuids, created, deleted, routes >>

Next ==
    \E s \in Slots :
        \/ \E e \in Events : Dispatch(s, e)
        \/ MiddlewareEnter(s)
        \/ HandlerEnter(s)
        \/ StorageReply(s)
        \/ MiddlewareResume(s)
        \/ Finish(s)
        \/ Release(s)

Spec == Init /\ [][Next]_vars

(***************************************************************************)
(* The executor under other registrations: GET /res-body registered with   *)
(* every list of up to MaxChain different middleware, the handler and the  *)
(* validation configuration being those of lambda/handler.ts.              *)
(***************************************************************************)
MiddlewareNames == { "validResMiddleware", "passThrough", "stamp", "shortCircuit" }

MiddlewareLists ==
    UNION { { m \in [1..n -> MiddlewareNames] :
                \A i, j \in 1..n : i # j => m[i] # m[j] } : n \in 1..MaxChain }

ResBodyEvent == Event("GET", "/res-body", EmptyObj, EmptyObj, Undefined)

DispatchChain(s, middleware) ==
    LET r == FirstMatch(routes, ResBodyEvent) IN
    /\ inv[s].pc = "idle"
    /\ \A t \in Slots : t < s => inv[t].pc # "idle"
    /\ inv' = [inv EXCEPT ![s] =
          [Idle EXCEPT !.pc = "running", !.event = ResBodyEvent, !.route = r,
                       !.chain = BuildChain([routes[r] EXCEPT !.middleware = middleware]),
                       !.pos = 1,
                       !.params = PathParams(routes[r].path, ResBodyEvent.path)]]
    /\ UNCHANGED << store, uuids, created, deleted, routes >>

NextChain ==
    \E s \in Slots :
        \/ \E m \in MiddlewareLists : DispatchChain(s, m)
        \/ MiddlewareEnter(s)
        \/ HandlerEnter(s)
        \/ MiddlewareResume(s)
        \/ Finish(s)
        \/ Release(s)

\* the storage command is rejected: the table is as it was, the await throws
StorageReject(s) ==
    LET I == inv[s]
        unit == I.chain[I.pos]
        out == HandlerReject(unit.name, I, StorageError)
    IN  /\ I.pc = "awaiting"
        /\ inv' = [inv EXCEPT ![s] =
              AfterHandler([Logged(I, unit, "reject") EXCEPT
                                !.pc = "running", !.cmd = NoCommand],
                           out)]
        /\ UNCHANGED << store, uuids, created, deleted, routes >>

FaultEvents ==
    { Event("POST", "/products", EmptyObj, EmptyObj, Product("Cheap Furniture", 25, "Furniture")),
      Event("GET", "/products", EmptyObj, EmptyObj, Undefined),
      Event("GET", "/products/" \o RandomUUID(0), EmptyObj, EmptyObj, Undefined),
      Event("DELETE", "/products/" \o RandomUUID(0), EmptyObj, EmptyObj, Undefined),
      Event("GET", "/res-body", EmptyObj, EmptyObj, Undefined) }

NextFault ==
    \E s \in Slots :
        \/ \E e \in FaultEvents : Dispatch(s, e)
        \/ MiddlewareEnter(s)
        \/ HandlerEnter(s)
        \/ StorageReply(s)
        \/ StorageReject(s)
        \/ MiddlewareResume(s)
        \/ Finish(s)
        \/ Release(s)

\* once a promise has settled the event loop runs its continuation: the
\* executor goes on unwinding and the router ends the dispatch
SpecFault ==
    /\ Init
    /\ [][NextFault]_vars
    /\ \A s \in Slots : WF_vars(MiddlewareResume(s)) /\ WF_vars(Finish(s))

SpecChain == Init /\ [][NextChain]_vars

(***************************************************************************)
(* The router under other route tables: registrations of lambda/handler.ts *)
(* under other methods and paths, so that several routes match one path,   *)
(* in every order of registration.                                         *)
(***************************************************************************)
RouteAt(handler) == CHOOSE i \in 1..Len(Routes) : Routes[i].handler = handler

Registered(handler, method, path) ==
    [Routes[RouteAt(handler)] EXCEPT !.method = method, !.path = path]

RoutePool ==
    { Registered("productValid", "GET", "/items/special"),
      Registered("productInvalid", "GET", "/items/:id"),
      Registered("resBody", "GET", "/:kind/:id"),
      Registered("protected", "POST", "/items/:id") }

RouteTables ==
    UNION { { t \in [1..n -> RoutePool] :
                \A i, j \in 1..n : i # j => t[i] # t[j] } : n \in 1..MaxRoutes }

MatchEvents ==
    { Event(m, p, EmptyObj, EmptyObj, Undefined) :
        m \in { "GET", "POST", "DELETE" },
        p \in { "/items/special", "/items/7", "/items", "/items/7/parts" } }

InitMatch ==
    /\ inv = [s \in Slots |-> Idle]
    /\ store = {}
    /\ uuids = 0
    /\ created = {}
    /\ deleted = {}
    /\ routes \in RouteTables

NextMatch ==
    \E s \in Slots :
        \/ \E e \in MatchEvents : Dispatch(s, e)
        \/ MiddlewareEnter(s)
        \/ HandlerEnter(s)
        \/ MiddlewareResume(s)
        \/ Finish(s)
        \/ Release(s)

SpecMatch == InitMatch /\ [][NextMatch]_vars

(***************************************************************************)
(* The router with a route that declares several request parts, which no   *)
(* route of lambda/handler.ts does: POST /things/<parameter> registered    *)
(* with the schemas of lambda/schemas.ts on any of its request parts.      *)
(***************************************************************************)
Optionally(schema) == { NoSchema, schema }

PartRoutes ==
    { [Routes[RouteAt("productValid")] EXCEPT
          !.method = "POST", !.path = path,
          !.validation = Validation(p, q, h, b, NoSchema)] :
        path \in { "/things/:id", "/things/:key" },
        p \in Optionally(ProductPathSchema), q \in Optionally(ProductPathSchema),
        h \in Optionally(ApiKeyHeaderSchema), b \in Optionally(ProductSchema) }

PartEvents ==
    { Event("POST", "/things/7", q, h, b) :
        q \in { EmptyObj, Query([id |-> Str("7")]) },
        h \in HeaderSets \ { EmptyObj },
        b \in { Product("Cheap Furniture", 25, "Furniture"),
                Obj([name |-> Str("Test Product"), price |-> Str("10")]) } }

InitParts ==
    /\ inv = [s \in Slots |-> Idle]
    /\ store = {}
    /\ uuids = 0
    /\ created = {}
    /\ deleted = {}
    /\ \E r \in PartRoutes : routes = << r >>

NextParts ==
    \E s \in Slots :
        \/ \E e \in PartEvents : Dispatch(s, e)
        \/ MiddlewareEnter(s)
        \/ HandlerEnter(s)
        \/ MiddlewareResume(s)
        \/ Finish(s)
        \/ Release(s)

SpecParts == InitParts /\ [][NextParts]_vars

(***************************************************************************)
(* Notions the properties below share.                                     *)
(***************************************************************************)
Done(s) == inv[s].pc = "done"
Matched(s) == inv[s].pc # "idle" /\ inv[s].route # 0
RouteOf(I) == routes[I.route]
OnRoute(s, method, path) ==
    Matched(s) /\ RouteOf(inv[s]).method = method /\ RouteOf(inv[s]).path = path

\* the steps of unit name logged so far, as positions of the log
StepsOf(I, name) == { k \in 1..Len(I.log) : I.log[k][1] = name }
HandlerSteps(I) == StepsOf(I, HandlerOf(I))
UserSteps(I) ==
    { k \in 1..Len(I.log) :
        \E i \in 1..Len(RouteOf(I).middleware) : I.log[k][1] = RouteOf(I).middleware[i] }

\* a field of an object schema is violated by the value found under its key
FieldViolated(f, v) ==
    \/ v = Undefined /\ ~f.optional
    \/ v # Undefined /\ v.t # f.type
    \/ v # Undefined /\ v.t = f.type /\ f.type = "number" /\ f.positive /\ v.n <= 0
    \/ v # Undefined /\ v.t = f.type /\ f.type = "string" /\ Len(v.s) < f.min

PartViolated(schema, raw) ==
    \/ raw.t # "object"
    \/ \E i \in 1..Len(schema.fields) :
          FieldViolated(schema.fields[i], Get(raw, schema.fields[i].key))

DeclaredParts(I) == { p \in { Parts[i] : i \in 1..Len(Parts) } : Declared(I, p) }

RequestViolates(I) ==
    \E p \in DeclaredParts(I) : PartViolated(RouteOf(I).validation.req[p], RawPart(I, p))

IssuesAt(issues, path) == { k \in 1..Len(issues) : issues[k].path = path }

IsRequestValidationError(result) ==
    result.status = 422 /\ result.body.error = "RequestValidationError"

(***************************************************************************)
(* C1.  On every route registered with a validation configuration, request *)
(* validation is the first step of the invocation and has succeeded before *)
(* any middleware of the route or the handler takes a step; response-body  *)
(* validation happens only after the handler's last step, and it does      *)
(* happen whenever the handler returned and res.body is declared.          *)
(***************************************************************************)
C1_ValidationOrder ==
    \A s \in Slots :
        LET I == inv[s] IN
        (Matched(s) /\ RouteOf(I).validation.declared) =>
            /\ \A k \in HandlerSteps(I) \cup UserSteps(I) :
                  /\ k > 1
                  /\ I.log[1] = << "requestValidation", "pre" >>
                  /\ I.validReq # Undefined
            /\ \A k \in 1..Len(I.log) :
                  I.log[k] = << "responseValidation", "post" >> =>
                      /\ HandlerSteps(I) # {}
                      /\ \A j \in HandlerSteps(I) : j < k
            /\ (Done(s) /\ ValidatesResponse(RouteOf(I)) /\ I.result.status = 200) =>
                  \E k \in 1..Len(I.log) : I.log[k] = << "responseValidation", "post" >>

C1_Witness ==
    \E s \in Slots :
        /\ Done(s) /\ OnRoute(s, "GET", "/res-body")
        /\ inv[s].log = << << "requestValidation", "pre" >>,
                           << "validResMiddleware", "pre" >>,
                           << "responseValidation", "pre" >>,
                           << "resBody", "call" >>,
                           << "responseValidation", "post" >>,
                           << "validResMiddleware", "post" >>,
                           << "requestValidation", "post" >> >>

(***************************************************************************)
(* C2.  On GET /res-body, when control is back in validResMiddleware after *)
(* next(), reading valid.res.body yields the parsed form of the value the  *)
(* handler returned; the invocation ends with status 200, the handler's    *)
(* body, and the header x-exists holding that body as JSON.                *)
(***************************************************************************)
C2_ValidResInMiddleware ==
    \A s \in Slots :
        LET I == inv[s] IN
        OnRoute(s, "GET", "/res-body") =>
            /\ (I.pc = "running" /\ I.dir = "up" /\ I.pos >= 1
                    /\ I.chain[I.pos].name = "validResMiddleware") =>
                  /\ I.thrown = Undefined
                  /\ I.res.body = Obj([hasResBody |-> Bool(TRUE)])
                  /\ ReadValidResBody(I) = Return(Parse(ResBodySchema, I.res.body).value)
            /\ Done(s) =>
                  /\ I.result.status = 200
                  /\ I.result.body = Obj([hasResBody |-> Bool(TRUE)])
                  /\ I.result.headers = [k \in {"x-exists"} |-> "{\"hasResBody\":true}"]

C2_Witness ==
    \E s \in Slots :
        /\ Done(s) /\ OnRoute(s, "GET", "/res-body")
        /\ inv[s].result.status = 200
        /\ "x-exists" \in DOMAIN inv[s].result.headers

(***************************************************************************)
(* C3.  A finished invocation is answered 422 RequestValidationError       *)
(* exactly when a declared request part violates its schema; then, for     *)
(* every declared part that is an object, details.issues holds exactly one *)
(* issue with the path of each violated field and none for the others.     *)
(* In particular a POST /products with a non-positive price has an issue   *)
(* at ['price'] and a GET /protected without the header one at             *)
(* ['x-api-key'].                                                          *)
(***************************************************************************)
C3_RequestValidation422 ==
    \A s \in Slots :
        LET I == inv[s]
            issues == I.result.body.details.issues
        IN
        (Done(s) /\ Matched(s)) =>
            /\ RequestViolates(I) <=> I.result.status = 422
            /\ I.result.status = 422 =>
                  /\ I.result.body.error = "RequestValidationError"
                  /\ \A p \in DeclaredParts(I) :
                        RawPart(I, p).t = "object" =>
                            \A i \in 1..Len(RouteOf(I).validation.req[p].fields) :
                                LET f == RouteOf(I).validation.req[p].fields[i] IN
                                Cardinality(IssuesAt(issues, << f.key >>)) =
                                    IF FieldViolated(f, Get(RawPart(I, p), f.key))
                                    THEN 1 ELSE 0
            /\ (OnRoute(s, "POST", "/products") /\ I.event.body.t = "object"
                    /\ Get(I.event.body, "price").t = "number"
                    /\ Get(I.event.body, "price").n <= 0) =>
                  /\ IsRequestValidationError(I.result)
                  /\ \E k \in IssuesAt(issues, << "price" >>) :
                        issues[k].message = "Too small: expected number to be >0"
            /\ (OnRoute(s, "GET", "/protected")
                    /\ Get(I.event.headers, "x-api-key") = Undefined) =>
                  /\ IsRequestValidationError(I.result)
                  /\ IssuesAt(issues, << "x-api-key" >>) # {}

C3_Witness ==
    \E s \in Slots :
        /\ Done(s) /\ OnRoute(s, "POST", "/products")
        /\ inv[s].event.body = Product("Test Product", -10, "Test")
        /\ IsRequestValidationError(inv[s].result)
        /\ Len(inv[s].result.body.details.issues) = 1

(***************************************************************************)
(* C4.  An invocation whose request validation failed has taken no step of *)
(* its handler or of a middleware of its route, has generated no id and    *)
(* has sent no storage command, and none of its steps changes the table or *)
(* the count of generated ids.  In particular a POST /products whose price *)
(* is not a positive number never reaches its handler.                     *)
(***************************************************************************)
RequestRejected(I) ==
    I.thrown # Undefined /\ I.thrown.name = "RequestValidationError"

NonPositivePrice(e) ==
    /\ e.method = "POST" /\ e.path = "/products" /\ e.body.t = "object"
    /\ Get(e.body, "price").t = "number" /\ Get(e.body, "price").n <= 0

NoHandlerStep(I) ==
    /\ HandlerSteps(I) = {} /\ UserSteps(I) = {}
    /\ I.local = NoLocal /\ I.cmd = NoCommand /\ I.pc # "awaiting"

C4_RejectedRunsNothing ==
    /\ [](\A s \in Slots :
            Matched(s) =>
                /\ (RequestRejected(inv[s]) \/ NonPositivePrice(inv[s].event))
                      => NoHandlerStep(inv[s])
                /\ (Done(s) /\ inv[s].result.status = 422) => RequestRejected(inv[s]))
    /\ [][\A s \in Slots :
            (inv'[s] # inv[s] /\ inv'[s].pc # "idle"
                /\ (RequestRejected(inv'[s]) \/ NonPositivePrice(inv'[s].event)))
                => (store' = store /\ uuids' = uuids)]_vars

C4_Witness ==
    \E s \in Slots :
        /\ Done(s) /\ OnRoute(s, "POST", "/products")
        /\ inv[s].result.status = 422
        /\ store # {}

(***************************************************************************)
(* C5.  GET /product-invalid ends with status 500 ResponseValidationError, *)
(* and no finished invocation of a route that declares a response schema   *)
(* has a 2xx status with a body that violates that schema.                 *)
(***************************************************************************)
ResponseViolates(schema, body) ==
    IF schema.kind = "object" THEN PartViolated(schema, body)
    ELSE \/ body.t # "array"
         \/ \E i \in 1..Len(body.a) : PartViolated(schema.element, body.a[i])

C5_ResponseValidation500 ==
    \A s \in Slots :
        LET I == inv[s] IN
        (Done(s) /\ Matched(s)) =>
            /\ OnRoute(s, "GET", "/product-invalid") =>
                  /\ I.result.status = 500
                  /\ I.result.body.error = "ResponseValidationError"
                  /\ IssuesAt(I.result.body.details.issues, << "id" >>) # {}
            /\ (ValidatesResponse(RouteOf(I)) /\ I.result.status \in 200..299) =>
                  ~ResponseViolates(RouteOf(I).validation.res.body, I.result.body)

C5_Witness ==
    \E s \in Slots :
        /\ Done(s) /\ OnRoute(s, "GET", "/product-invalid")
        /\ inv[s].result.status = 500
        /\ HandlerSteps(inv[s]) # {}

(***************************************************************************)
(* C6.  While the handler of an invocation has not returned, valid.res is  *)
(* not there and reading valid.res.body throws; valid.res is there only    *)
(* once the handler has run and response validation has succeeded, and     *)
(* then holds the parsed response body.                                    *)
(***************************************************************************)
HandlerNotReturned(I) == I.dir = "down" \/ I.pc = "awaiting"

C6_ValidResAfterHandler ==
    \A s \in Slots :
        LET I == inv[s] IN
        Matched(s) =>
            /\ HandlerNotReturned(I) =>
                  /\ I.validRes = Undefined
                  /\ ReadValidResBody(I).kind = "throw"
            /\ I.validRes # Undefined =>
                  /\ HandlerSteps(I) # {}
                  /\ \E k \in 1..Len(I.log) :
                        /\ I.log[k] = << "responseValidation", "post" >>
                        /\ \A j \in HandlerSteps(I) : j < k
                  /\ ~ResponseViolates(RouteOf(I).validation.res.body, I.res.body)
                  /\ I.validRes = Obj([body |->
                        Parse(RouteOf(I).validation.res.body, I.res.body).value])

C6_Witness ==
    \E s, t \in Slots :
        /\ Matched(s) /\ inv[s].pc = "awaiting" /\ ValidatesResponse(RouteOf(inv[s]))
        /\ inv[s].validRes = Undefined
        /\ Matched(t) /\ inv[t].validRes # Undefined

(***************************************************************************)
(* C7.  Every POST /products with a valid body, whatever runs beside it,   *)
(* ends with status 200 and the product with the id generated for it; the  *)
(* ids of different invocations and of the products created differ; every  *)
(* product whose POST has completed and that no delete has removed is in   *)
(* the table; and a GET /products without filters ends with status 200 and *)
(* lists, with its id, name, price and category, every product that was in *)
(* the table when the query was made.                                      *)
(***************************************************************************)
\* the product an item of the table stands for
StoredProduct(x) ==
    Obj([id |-> Str(SubSeq(x.pk.s, Len(PK_PREFIX) + 1, Len(x.pk.s)))]
            @@ [k \in (DOMAIN x) \ {"pk", "sk"} |-> x[k]])

SameProduct(a, b) ==
    \A k \in {"id", "name", "price", "category"} : Get(a, k) = Get(b, k)

CreatedIds == { Get(c, "id") : c \in created }

C7_ConcurrentCreates ==
    /\ \A s \in Slots :
          LET I == inv[s] IN
          (Done(s) /\ OnRoute(s, "POST", "/products") /\ ~RequestViolates(I)) =>
              /\ I.result.status = 200
              /\ Get(I.result.body, "id") = Str(I.local.id)
              /\ \A k \in {"name", "price", "category"} :
                    Get(I.result.body, k) = Get(I.event.body, k)
    /\ \A s, t \in Slots :
          (s # t /\ inv[s].local.id # "" /\ inv[t].local.id # ""
              /\ OnRoute(s, "POST", "/products") /\ OnRoute(t, "POST", "/products"))
              => inv[s].local.id # inv[t].local.id
    /\ \A s \in Slots :
          (OnRoute(s, "POST", "/products") /\ inv[s].local.id # "" /\ ~Done(s))
              => Str(inv[s].local.id) \notin CreatedIds
    /\ Cardinality(CreatedIds) = Cardinality(created)
    /\ \A s \in Slots :
          LET I == inv[s] IN
          (Done(s) /\ OnRoute(s, "GET", "/products")) =>
              /\ I.result.status = 200
              /\ I.event.query = EmptyObj =>
                    \A x \in I.table :
                        \E i \in 1..Len(I.result.body.a) :
                            SameProduct(I.result.body.a[i], StoredProduct(x))
    /\ \A c \in created : \E x \in store : SameProduct(StoredProduct(x), c)

C7_Witness ==
    \E s, t \in Slots :
        /\ s # t
        /\ Done(s) /\ OnRoute(s, "POST", "/products") /\ inv[s].result.status = 200
        /\ Done(t) /\ OnRoute(t, "POST", "/products") /\ inv[t].result.status = 200
        /\ inv[s].local.id # inv[t].local.id

(***************************************************************************)
(* C8.  GET /products returns exactly the products of the table, as it was *)
(* when the query was made, that pass every filter of the query: the       *)
(* category equal to a non-empty category, the price at least the number   *)
(* minPrice parses to, the price at most the number maxPrice parses to.    *)
(* An absent or empty parameter excludes nothing.                          *)
(***************************************************************************)
Present(q, key) == Get(q, key) # Undefined /\ Get(q, key).s # ""

PassesFilters(x, q) ==
    /\ Present(q, "category") => x.category = Get(q, "category")
    /\ Present(q, "minPrice") => NumGe(x.price.n, ParseFloat(Get(q, "minPrice").s))
    /\ Present(q, "maxPrice") => NumLe(x.price.n, ParseFloat(Get(q, "maxPrice").s))

C8_FilterExact ==
    \A s \in Slots :
        LET I == inv[s]
            list == I.result.body.a
        IN
        (Done(s) /\ OnRoute(s, "GET", "/products")) =>
            /\ I.result.status = 200
            /\ { list[i] : i \in 1..Len(list) } =
                  { StoredProduct(x) : x \in { y \in I.table : PassesFilters(y, I.event.query) } }
            /\ \A i, j \in 1..Len(list) : list[i] = list[j] => i = j
            /\ I.event.query = Query([minPrice |-> Str("20"), maxPrice |-> Str("100")]) =>
                  \A x \in I.table :
                      (\E i \in 1..Len(list) : list[i] = StoredProduct(x))
                          <=> (20 <= x.price.n /\ x.price.n <= 100)

C8_Witness ==
    \E s \in Slots :
        /\ Done(s) /\ OnRoute(s, "GET", "/products")
        /\ inv[s].event.query = Query([minPrice |-> Str("20"), maxPrice |-> Str("100")])
        /\ Cardinality(inv[s].table) = 2
        /\ Len(inv[s].result.body.a) = 1

(***************************************************************************)
(* C9.  GET /products/:id for an id with no item in the table: the handler *)
(* throws NotFoundError, the throw passes through the wrapping units       *)
(* innermost first, response validation does not validate, and the         *)
(* invocation ends with status 404 NotFoundError.                          *)
(***************************************************************************)
C9_NotFound404 ==
    \A s \in Slots :
        LET I == inv[s] IN
        (Done(s) /\ OnRoute(s, "GET", "/products/:id")
            /\ ~\E x \in I.table : HasKey(x, ProductKey(Get(I.params, "id").s))) =>
            /\ I.result.status = 404
            /\ I.result.body.error = "NotFoundError"
            /\ I.validRes = Undefined
            /\ I.log = << << "requestValidation", "pre" >>,
                          << "responseValidation", "pre" >>,
                          << "getProduct", "call" >>,
                          << "getProduct", "resume" >>,
                          << "responseValidation", "rethrow" >>,
                          << "requestValidation", "rethrow" >> >>

C9_Witness ==
    \E s \in Slots :
        /\ Done(s) /\ OnRoute(s, "GET", "/products/:id")
        /\ inv[s].result.status = 404
        /\ store # {}


(***************************************************************************)
(* C10.  When a middleware returns without calling next(), no middleware   *)
(* after it in the chain and not the handler takes a step; the middleware  *)
(* before it, which have called next(), run the code after their next()    *)
(* call in reverse order, an error thrown by one of them passing through   *)
(* the ones before it; and the result of the dispatch is the response on   *)
(* the Request Context once they have: the response the returning          *)
(* middleware left there, with the changes the middleware before it made   *)
(* after next(), or the translation of the error one of them threw.        *)
(***************************************************************************)
PosOf(I, name) ==
    IF \E i \in 1..Len(I.chain) : I.chain[i].name = name
    THEN CHOOSE i \in 1..Len(I.chain) : I.chain[i].name = name
    ELSE 0

ShortCircuitAt(I) == PosOf(I, "shortCircuit")

ShortCircuits(s) == inv[s].pc # "idle" /\ ShortCircuitAt(inv[s]) # 0

Upstream(I, name) == PosOf(I, name) # 0 /\ PosOf(I, name) < ShortCircuitAt(I)

\* the response at the moment the middleware returns without next()
ResponseAtShortCircuit(I) == ShortCircuitPre([I EXCEPT !.res = DefaultResponse]).I.res

NothingDownstream(I) ==
    \A i \in 1..Len(I.log) : PosOf(I, I.log[i][1]) <= ShortCircuitAt(I)

ReverseOrder(I) ==
    LET k == ShortCircuitAt(I) IN
    /\ Len(I.log) = 2 * k - 1
    /\ \A i \in 1..k : I.log[i] = << I.chain[i].name, "pre" >>
    /\ \A i \in 1..(k - 1) :
          /\ I.log[k + i][1] = I.chain[k - i].name
          /\ I.log[k + i][2] \in { "post", "rethrow" }
          /\ I.log[k + i][2] = "rethrow" <=>
                \E j \in (k - i + 1)..(k - 1) : I.chain[j].name = "validResMiddleware"

ShortCircuitResult(I) ==
    IF Upstream(I, "validResMiddleware") THEN Translate(TypeError)
    ELSE IF Upstream(I, "stamp")
    THEN SetHeader(ResponseAtShortCircuit(I), "x-stamp", "1")
    ELSE ResponseAtShortCircuit(I)

Literal(seg) == SubSeq(seg, 1, 1) # ":"

PatternFits(pattern, path) ==
    LET ps == Segments(pattern)
        xs == Segments(path)
    IN  /\ Len(ps) = Len(xs)
        /\ ~\E i \in 1..Len(ps) : Literal(ps[i]) /\ ps[i] # xs[i]

Candidates(e) ==
    { i \in 1..Len(routes) : routes[i].method = e.method /\ PatternFits(routes[i].path, e.path) }

Captures(params, pattern, path) ==
    LET ps == Segments(pattern)
        xs == Segments(path)
    IN  /\ params.t = "object"
        /\ DOMAIN params.o = { SubSeq(ps[i], 2, Len(ps[i])) : i \in { j \in 1..Len(ps) : ~Literal(ps[j]) } }
        /\ \A i \in 1..Len(ps) :
              ~Literal(ps[i]) => params.o[SubSeq(ps[i], 2, Len(ps[i]))] = Str(xs[i])

C11_FirstMatchWins ==
    \A s \in Slots :
        LET I == inv[s] IN
        I.pc # "idle" =>
            /\ Candidates(I.event) # {} =>
                  /\ I.route \in Candidates(I.event)
                  /\ \A j \in Candidates(I.event) : I.route <= j
                  /\ Captures(I.params, routes[I.route].path, I.event.path)
                  /\ I.chain[Len(I.chain)] = HandlerUnit(routes[I.route].handler)
                  /\ \A k \in 1..Len(I.log) :
                        \E u \in 1..Len(I.chain) : I.chain[u].name = I.log[k][1]
            /\ Candidates(I.event) = {} =>
                  /\ I.route = 0
                  /\ I.pc = "done"
                  /\ I.result.status = 404
                  /\ I.result.body.error = "NotFoundError"
                  /\ I.log = << >>
            /\ \A t \in Slots :
                  (inv[t].pc # "idle" /\ inv[t].event = I.event) => inv[t].route = I.route

C11_Witness ==
    \E s \in Slots :
        LET I == inv[s] IN
        /\ Done(s) /\ I.route # 0
        /\ \E j \in Candidates(I.event) : j > I.route
        /\ I.event.path = "/items/special"
        /\ routes[I.route].path = "/items/:id"
        /\ I.params = Obj([id |-> Str("special")])
        /\ << "productInvalid", "call" >> \in { I.log[k] : k \in 1..Len(I.log) }


(***************************************************************************)
(* C12.  When the storage call of a handler is rejected with an error of a *)
(* kind the router does not know, the handler throws that error; it stays  *)
(* the thrown error while every unit that had called next() sees it pass,  *)
(* innermost first, none running the code after its next(); the dispatch   *)
(* ends, and ends with 500 InternalError whose body carries nothing of the *)
(* error.  No step of the failed invocation changes the table, the route   *)
(* table or the context of another invocation, and its slot is as new once *)
(* the response is out.                                                    *)
(***************************************************************************)
Rejected(I) == \E k \in 1..Len(I.log) : I.log[k][2] = "reject"

RejectedAt(I) == CHOOSE k \in 1..Len(I.log) : I.log[k][2] = "reject"

PassedThrough(I) ==
    LET k == RejectedAt(I)
        n == Len(I.chain)
    IN  /\ I.log[k][1] = I.chain[n].name
        /\ \A i \in 1..(Len(I.log) - k) : I.log[k + i] = << I.chain[n - i].name, "rethrow" >>
        /\ Len(I.log) - k = n - 1 - I.pos

InternalError500(result) ==
    /\ result.status = 500
    /\ result.body.error = "InternalError"
    /\ result.body.details = [message |-> ""]
    /\ result.headers = NoHeaders

FailedSafe ==
    \A s \in Slots :
        LET I == inv[s] IN
        (I.pc # "idle" /\ Rejected(I)) =>
            /\ I.thrown = StorageError
            /\ I.pc \in { "running", "done" }
            /\ PassedThrough(I)
            /\ I.validRes = Undefined
            /\ Done(s) => InternalError500(I.result)

FailedFrame ==
    \A s \in Slots :
        (inv'[s] # inv[s] /\ (Rejected(inv[s]) \/ Rejected(inv'[s]))) =>
            /\ store' = store
            /\ routes' = routes
            /\ \A t \in Slots \ {s} : inv'[t] = inv[t]
            /\ Rejected(inv[s]) => (inv'[s] = Idle \/ inv'[s].thrown = inv[s].thrown)

C12_UnknownError ==
    /\ []FailedSafe
    /\ [][FailedFrame]_vars
    /\ \A s \in Slots :
          (inv[s].pc = "running" /\ Rejected(inv[s]))
              ~> (inv[s].pc = "done" /\ Rejected(inv[s]) /\ InternalError500(inv[s].result))

C12_Witness ==
    \E s \in Slots :
        /\ Done(s) /\ OnRoute(s, "POST", "/products")
        /\ Rejected(inv[s])
        /\ inv[s].result.status = 500
        /\ \E t \in Slots \ {s} : Done(t) /\ OnRoute(t, "POST", "/products")
                                     /\ inv[t].result.status = 200


(***************************************************************************)
(* C13.  When declared request parts fail validation, the one Validation   *)
(* Error thrown holds, for the parts path, query, headers and body in that *)
(* order, the issues of every declared part that fails: one per violated   *)
(* field, in the order of the schema's fields.  valid.req is not written,  *)
(* no unit after request validation runs, and the answer is 422 with those *)
(* issues.                                                                 *)
(***************************************************************************)
RECURSIVE ViolatedKeys(_, _, _)
ViolatedKeys(fields, raw, i) ==
    IF i > Len(fields) THEN << >>
    ELSE (IF FieldViolated(fields[i], Get(raw, fields[i].key))
          THEN << << fields[i].key >> >> ELSE << >>)
            \o ViolatedKeys(fields, raw, i + 1)

ExpectedPaths(I, part) ==
    IF ~Declared(I, part) THEN << >>
    ELSE IF RawPart(I, part).t # "object" THEN << << >> >>
    ELSE ViolatedKeys(RouteOf(I).validation.req[part].fields, RawPart(I, part), 1)

FailedParts(I) == { p \in DeclaredParts(I) : ExpectedPaths(I, p) # << >> }

PathsOf(issues) == [k \in 1..Len(issues) |-> issues[k].path]

AllExpectedPaths(I) ==
    ExpectedPaths(I, "path") \o ExpectedPaths(I, "query")
        \o ExpectedPaths(I, "headers") \o ExpectedPaths(I, "body")

C13_AggregatedIssues ==
    \A s \in Slots :
        LET I == inv[s] IN
        (Matched(s) /\ FailedParts(I) # {} /\ I.log # << >>) =>
            /\ I.thrown # Undefined
            /\ I.thrown.name = "RequestValidationError"
            /\ PathsOf(I.thrown.issues) = AllExpectedPaths(I)
            /\ I.validReq = Undefined
            /\ I.log = << << "requestValidation", "pre" >> >>
            /\ Done(s) =>
                  /\ IsRequestValidationError(I.result)
                  /\ PathsOf(I.result.body.details.issues) = AllExpectedPaths(I)

C13_Witness ==
    \E s \in Slots :
        LET I == inv[s] IN
        /\ Done(s) /\ Matched(s)
        /\ FailedParts(I) = { "path", "query", "headers", "body" }
        /\ PathsOf(I.result.body.details.issues) =
              << << "id" >>, << "id" >>, << "x-api-key" >>, << "price" >>, << "category" >> >>


(***************************************************************************)
(* C14.  Every item of the table has sk 'PRODUCTS', a pk 'PRODUCTS#' + id  *)
(* for an id randomUUID has handed out, no other item under its key, and,  *)
(* besides pk and sk, fields that satisfy ProductSchema and are declared   *)
(* by it; with pk and sk removed and the id added it satisfies             *)
(* ProductWithIdSchema.  So GET /products always ends with 200 and GET     *)
(* /products/:id with 200 or 404, never with 500 ResponseValidationError.  *)
(***************************************************************************)
GeneratedIds == { RandomUUID(n) : n \in 0..(uuids - 1) }

ItemFields(x) == [k \in (DOMAIN x) \ { "pk", "sk" } |-> x[k]]

WellFormedItem(x) ==
    /\ { "pk", "sk" } \subseteq DOMAIN x
    /\ x.sk = Str(TABLE_SK)
    /\ \E id \in GeneratedIds : x.pk = Str(PK_PREFIX \o id)
    /\ ~PartViolated(ProductSchema, Obj(ItemFields(x)))
    /\ DOMAIN ItemFields(x) \subseteq SchemaKeys(ProductSchema)
    /\ ~PartViolated(ProductWithIdSchema, StoredProduct(x))

C14_StoredItemsWellFormed ==
    /\ \A x \in store : WellFormedItem(x)
    /\ \A x, y \in store : (x.pk = y.pk /\ x.sk = y.sk) => x = y
    /\ \A s \in Slots :
          LET I == inv[s] IN
          /\ (Done(s) /\ OnRoute(s, "GET", "/products")) =>
                /\ I.result.status = 200
                /\ \A i \in 1..Len(I.result.body.a) :
                      ~PartViolated(ProductWithIdSchema, I.result.body.a[i])
          /\ (Done(s) /\ OnRoute(s, "GET", "/products/:id")) =>
                /\ I.result.status \in { 200, 404 }
                /\ I.result.status = 200 =>
                      ~PartViolated(ProductWithIdSchema, I.result.body)

C14_Witness ==
    \E s, t \in Slots :
        /\ Cardinality(store) = 2
        /\ Done(s) /\ OnRoute(s, "GET", "/products")
        /\ inv[s].result.status = 200 /\ Len(inv[s].result.body.a) = 2
        /\ Done(t) /\ OnRoute(t, "GET", "/products/:id")
        /\ inv[t].result.status = 200


(***************************************************************************)
(* C15.  DELETE /products/:id ends with status 204 and an empty body,      *)
(* whether its delete found an item or not.  The step in which the delete  *)
(* takes effect removes the item with pk 'PRODUCTS#' + id and sk           *)
(* 'PRODUCTS' and nothing else, so it changes nothing when there is no     *)
(* such item, as when the DELETE is repeated.  An item a delete has        *)
(* removed is never in the table again: a get for its id that takes effect *)
(* afterwards finds nothing and ends in 404, and a query that takes effect *)
(* afterwards does not list the id.                                        *)
(***************************************************************************)
PathId(I) == Get(I.params, "id").s

HasId(x, id) == x.pk = Str("PRODUCTS#" \o id) /\ x.sk = Str("PRODUCTS")

\* the command invocation s awaits takes effect in this step
TakesEffect(s, op) ==
    inv[s].pc = "awaiting" /\ inv[s].cmd.op = op /\ inv'[s].pc # "awaiting"

DeleteAnswered ==
    \A s \in Slots :
        (Done(s) /\ OnRoute(s, "DELETE", "/products/:id")) =>
            /\ inv[s].result.status = 204
            /\ inv[s].result.body = JNull
            /\ inv[s].result.headers = NoHeaders

DeletedStayAway ==
    /\ \A id \in deleted : ~\E x \in store : HasId(x, id)
    /\ \A s \in Slots :
          (Done(s) /\ OnRoute(s, "GET", "/products/:id") /\ inv[s].thrown # Undefined) =>
              inv[s].result.status = 404

DeleteEffect ==
    \A s \in Slots :
        /\ TakesEffect(s, "delete") =>
              /\ store' = { x \in store : ~HasId(x, PathId(inv[s])) }
              /\ (~\E x \in store : HasId(x, PathId(inv[s]))) => store' = store
              /\ inv'[s].res.status = 204
        /\ (TakesEffect(s, "get") /\ PathId(inv[s]) \in deleted) =>
              /\ inv'[s].thrown # Undefined
              /\ inv'[s].thrown.name = "NotFoundError"
        /\ TakesEffect(s, "query") =>
              \A i \in 1..Len(inv'[s].res.body.a) :
                  Get(inv'[s].res.body.a[i], "id").s \notin deleted

====
